---- MODULE Spec2Model ----
(***************************************************************************)
(* Model of the financial engine (src/unnamed/part_002, the module the UI  *)
(* imports as '@/lib/financial-engine') and of the expense handlers of the *)
(* UI (src/src/components/ExpenseList.tsx, src/src/pages/Index.tsx).       *)
(*                                                                         *)
(* Number representation.  The code computes in IEEE doubles; the model    *)
(* computes in integers:                                                   *)
(*   - money is counted in atoms, Atoms atoms to the currency unit;        *)
(*   - tax A rates are whole percents (96 = 96%), tax B rates are tenths   *)
(*     of a percent (225 = 22.5%);                                         *)
(*   - the reference rate is in hundredths of a percent (1490 = 14.90%);   *)
(*   - growth factors are fixed-point numbers with RateScale units to 1,   *)
(*     every product rounded down to the unit (the model's counterpart of  *)
(*     the rounding of a double product);                                  *)
(*   - a Date is the number of hours since the epoch in local time.        *)
(***************************************************************************)
EXTENDS Integers, Sequences, FiniteSets, TLC

VARIABLES
    days, irRate, iofRate,                        \* TaxCalculator lookups
    investment, currentDate, cdiAnnualRate, calc, \* InvestmentCalculator.calculate
    expenseArg, targetDate, monthly, pending,     \* ExpenseManager queries
    expenses, storage, lastOp,                    \* Index state and localStorage
    projArgs, now, projCalls,                     \* FinancialEngine.projectWealth
    cachedCDI, lastFetch,                         \* CDIService statics
    clock, calls, requests, lastDone,             \* calls of fetchCurrentCDI
    bizStart, bizEnd, bizDays, calDays,           \* BusinessDaysCalculator counts
    rateArg, powUlps, dailyRate, roundTrip,       \* CDIService rate conversions
    goals, effectPending                          \* Index goals, FinancialGoals

taxVars == <<days, irRate, iofRate>>
calcVars == <<investment, currentDate, cdiAnnualRate, calc>>
mgrVars == <<expenseArg, targetDate, monthly, pending>>
uiVars == <<expenses, storage, lastOp>>
projVars == <<projArgs, now, projCalls>>
cdiVars == <<cachedCDI, lastFetch, clock, calls, requests, lastDone>>
bizVars == <<bizStart, bizEnd, bizDays, calDays>>
rateVars == <<rateArg, powUlps, dailyRate, roundTrip>>
goalVars == <<goals, effectPending>>
vars == <<days, irRate, iofRate, investment, currentDate, cdiAnnualRate, calc,
          expenseArg, targetDate, monthly, pending,
          expenses, storage, lastOp,
          projArgs, now, projCalls,
          cachedCDI, lastFetch, clock, calls, requests, lastDone,
          bizStart, bizEnd, bizDays, calDays,
          rateArg, powUlps, dailyRate, roundTrip,
          goals, effectPending>>

\* A result variable holds <<>> until the function is applied, and then the
\* one-element sequence of the value returned.
NoRet == <<>>
Ret(v) == <<v>>

----------------------------------------------------------------------------
\* Constants of the engine

BUSINESS_DAYS_PER_YEAR == 252
CALENDAR_DAYS_PER_YEAR == 365
\* 1000 * 60 * 60 * 24 ms in getCalendarDays; the model's clock ticks in hours
HoursPerDay == 24
MonthsPerYear == 12

\* Atoms to the currency unit: a whole-unit amount times a whole percent / 100
\* and then times a tenth of a percent / 1000 is a whole number of atoms.
Atoms == 100 * 1000
\* Fixed-point units to 1 of a growth factor; RateSplit * RateSplit = RateScale.
RateSplit == 1000
RateScale == RateSplit * RateSplit

Max(a, b) == IF a >= b THEN a ELSE b
Min(a, b) == IF a <= b THEN a ELSE b

----------------------------------------------------------------------------
\* Date: getFullYear / getMonth / getDate / getDay / setHours of the runtime

\* setHours(0, 0, 0, 0): the local midnight that starts the date's day
Midnight(t) == t - (t % HoursPerDay)

DayNumber(t) == t \div HoursPerDay

\* The civil date of a day number (days since 1970-01-01): [y, m, d] with the
\* month 0-based as getMonth returns it.
CivilFromDays(z0) ==
    LET z == z0 + 719468
        era == z \div 146097
        doe == z - era * 146097
        yoe == (doe - doe \div 1460 + doe \div 36524 - doe \div 146096) \div 365
        doy == doe - (365 * yoe + yoe \div 4 - yoe \div 100)
        mp == (5 * doy + 2) \div 153
        d == doy - (153 * mp + 2) \div 5 + 1
        m == IF mp < 10 THEN mp + 3 ELSE mp - 9
        y == yoe + era * 400 + (IF m <= 2 THEN 1 ELSE 0)
    IN  [y |-> y, m |-> m - 1, d |-> d]

\* The day number of a civil date (month 0-based, 0..11).
DaysFromCivil(y0, m0, d) ==
    LET m == m0 + 1
        y == IF m <= 2 THEN y0 - 1 ELSE y0
        era == y \div 400
        yoe == y - era * 400
        doy == (153 * (IF m > 2 THEN m - 3 ELSE m + 9) + 2) \div 5 + d - 1
        doe == yoe * 365 + yoe \div 4 - yoe \div 100 + doy
    IN  era * 146097 + doe - 719468

getFullYear(t) == CivilFromDays(DayNumber(t)).y
getMonth(t) == CivilFromDays(DayNumber(t)).m
getDate(t) == CivilFromDays(DayNumber(t)).d

\* setMonth(getMonth() + i): the same day of the month and time of day in
\* the month i months later; a day the month does not have runs over into
\* the next month
addMonths(t, i) ==
    LET c == CivilFromDays(DayNumber(t))
        month == c.m + i
        first == DaysFromCivil(c.y + month \div MonthsPerYear,
                               month % MonthsPerYear, 1)
    IN  (first + c.d - 1) * HoursPerDay + (t % HoursPerDay)

\* A Date at local midnight of a civil date, plus h hours.
DateOf(y, m, d, h) == DaysFromCivil(y, m, d) * HoursPerDay + h

----------------------------------------------------------------------------
\* Fixed-point arithmetic standing for Math.pow on doubles

\* floor(a * b / RateScale) for a, b >= 0, without leaving 32 bits
MulFix(a, b) ==
    LET a1 == a \div RateSplit
        a0 == a % RateSplit
        b1 == b \div RateSplit
        b0 == b % RateSplit
    IN  a1 * b1 + (a1 * b0 + a0 * b1 + (a0 * b0) \div RateSplit) \div RateSplit

\* Math.pow(x, n) for a whole exponent n >= 0, by squaring
RECURSIVE PowFix(_, _)
PowFix(x, n) ==
    IF n = 0 THEN RateScale
    ELSE LET h == PowFix(x, n \div 2)
             sq == MulFix(h, h)
         IN  IF n % 2 = 1 THEN MulFix(sq, x) ELSE sq

\* x^n for x >= 1, cut short as soon as it exceeds cap (a value above cap
\* stands for any larger one): the powers of the candidates of a root
RECURSIVE PowCapped(_, _, _)
PowCapped(x, n, cap) ==
    IF n = 0 THEN RateScale
    ELSE LET h == PowCapped(x, n \div 2, cap)
         IN  IF h > cap THEN h
             ELSE LET sq == MulFix(h, h)
                  IN  IF sq > cap THEN sq
                      ELSE IF n % 2 = 1 THEN MulFix(sq, x) ELSE sq

\* Math.pow(x, 1 / n) for x > 0: the largest fixed-point r in lo..hi with
\* r^n <= x
RECURSIVE RootFix(_, _, _, _)
RootFix(x, n, lo, hi) ==
    IF lo >= hi THEN lo
    ELSE LET mid == (lo + hi + 1) \div 2
         IN  IF PowCapped(mid, n, x) <= x
             THEN RootFix(x, n, mid, hi)
             ELSE RootFix(x, n, lo, mid - 1)

\* floor(a * RateScale / b) for a >= 0, b > 0, by long division
DivFix(a, b) ==
    LET q0 == a \div b
        r0 == a % b
        q1 == (r0 * RateSplit) \div b
        r1 == (r0 * RateSplit) % b
        q2 == (r1 * RateSplit) \div b
    IN  q0 * RateScale + q1 * RateSplit + q2

\* amount * factor for an amount of whole currency units (in atoms) and a
\* fixed-point factor, rounded down to the whole unit
MulMoney(amount, factor) ==
    LET units == amount \div Atoms
        f1 == factor \div RateSplit
        f0 == factor % RateSplit
    IN  ((units * f1 + (units * f0) \div RateSplit) \div RateSplit) * Atoms

----------------------------------------------------------------------------
\* CDIService: rate conversions

\* annualToDaily: a rate in hundredths of a percent to the daily rate, as a
\* fixed-point fraction (the code's result divided by 100)
annualToDaily(annualRatePercent) ==
    LET annualRate == annualRatePercent * (RateScale \div 10000)
    IN  RootFix(RateScale + annualRate, BUSINESS_DAYS_PER_YEAR,
                Min(RateScale, RateScale + annualRate),
                Max(RateScale, RateScale + annualRate)) - RateScale

\* annualToMonthly: the monthly rate of an annual rate, as a fixed-point
\* fraction (the code's result divided by 100)
annualToMonthly(annualRatePercent) ==
    LET annualRate == annualRatePercent * (RateScale \div 10000)
    IN  RootFix(RateScale + annualRate, MonthsPerYear,
                RateScale, RateScale + annualRate) - RateScale

\* annualToDaily and dailyToAnnual in the code's own arithmetic (IEEE-754
\* binary64), for rates within 2^-30 of 0.  A double near 1 is held as its
\* offset from 1 in units of 2^-60, a rate in percent as the same number of
\* units of 100 * 2^-60: for these values the division and the
\* multiplication by 100 and the subtraction of 1 are exact, the addition
\* 1 + rate and Math.pow are not.

\* The doubles in [1, 2) are 2^-52 apart, those in [1/2, 1) 2^-53
Spacing(x) == IF x >= 0 THEN 2^8 ELSE 2^7

\* 1 + x in binary64: the nearest double, the even one of two equally near
OnePlus(x) ==
    LET u == Spacing(x)
        down == (x \div u) * u
        rest == x - down
    IN  IF 2 * rest < u THEN down
        ELSE IF 2 * rest > u THEN down + u
        ELSE IF (down \div u) % 2 = 0 THEN down
        ELSE down + u

\* Math.pow(1 + x, 1 / 252), which lies just below 1 + x / 252.  Math.pow
\* is accurate to less than one unit in the last place, not correctly
\* rounded: it returns either double next to the exact value (up = 0 the
\* one below, up = 1 the one above); every power of 1 is 1.
PowRoot(x, up) ==
    IF x = 0 THEN 0
    ELSE LET u == Spacing(x)
         IN  ((x - 1) \div (BUSINESS_DAYS_PER_YEAR * u)) * u + up * u

\* Math.pow(1 + d, 252), which lies just above 1 + 252 * d, itself a double
PowYear(d, up) ==
    IF d = 0 THEN 0
    ELSE BUSINESS_DAYS_PER_YEAR * d + up * Spacing(BUSINESS_DAYS_PER_YEAR * d)

annualToDailyBinary64(annualRatePercent, up) ==
    LET annualRate == annualRatePercent
    IN  PowRoot(OnePlus(annualRate), up)

dailyToAnnualBinary64(dailyRatePercent, up) ==
    LET daily == dailyRatePercent
    IN  PowYear(OnePlus(daily), up)

----------------------------------------------------------------------------
\* BusinessDaysCalculator

\* Variant: the distance between the two days, whichever comes first
getCalendarDays_abs(startDate, endDate) ==
    LET start == Midnight(startDate)
        end == Midnight(endDate)
        diff == (end - start) \div HoursPerDay
    IN  IF diff >= 0 THEN diff ELSE 0 - diff

\* Date.getDay: 0 is Sunday; day 0 of the epoch was a Thursday
getDay(t) == (DayNumber(t) + 4) % 7

FIXED_HOLIDAYS ==
    <<[month |-> 0, day |-> 1], [month |-> 3, day |-> 21],
      [month |-> 4, day |-> 1], [month |-> 8, day |-> 7],
      [month |-> 9, day |-> 12], [month |-> 10, day |-> 2],
      [month |-> 10, day |-> 15], [month |-> 11, day |-> 25]>>

\* Variant: the holidays are working days
isBusinessDay_weekendsOnly(date) ==
    LET dayOfWeek == getDay(date)
    IN  ~(dayOfWeek = 0 \/ dayOfWeek = 6)

isBusinessDay(date) ==
    LET dayOfWeek == getDay(date)
    IN  IF dayOfWeek = 0 \/ dayOfWeek = 6 THEN FALSE
        ELSE LET month == getMonth(date)
                 day == getDate(date)
                 isHoliday == \E i \in 1..Len(FIXED_HOLIDAYS) :
                                  /\ FIXED_HOLIDAYS[i].month = month
                                  /\ FIXED_HOLIDAYS[i].day = day
             IN  ~isHoliday

\* The while loop of getBusinessDays: current moves one day on and is counted
\* if it is a business day, as long as it is before end
RECURSIVE businessDaysLoop(_, _, _)
businessDaysLoop(current, end, count) ==
    IF current < end
    THEN LET next == current + HoursPerDay
         IN  businessDaysLoop(next, end,
                              IF isBusinessDay(next) THEN count + 1 ELSE count)
    ELSE count

getBusinessDays(startDate, endDate) ==
    businessDaysLoop(Midnight(startDate), Midnight(endDate), 0)

getCalendarDays(startDate, endDate) ==
    LET start == Midnight(startDate)
        end == Midnight(endDate)
    IN  Max(0, (end - start) \div HoursPerDay)

\* Variant: the ratio cut off instead of rounded
estimateBusinessDays_floor(calendarDays) ==
    (calendarDays * BUSINESS_DAYS_PER_YEAR) \div CALENDAR_DAYS_PER_YEAR

\* Math.round(calendarDays * (252 / 365)): Math.round is floor(x + 1/2)
estimateBusinessDays(calendarDays) ==
    (2 * calendarDays * BUSINESS_DAYS_PER_YEAR + CALENDAR_DAYS_PER_YEAR)
        \div (2 * CALENDAR_DAYS_PER_YEAR)

----------------------------------------------------------------------------
\* TaxCalculator

\* maxDays: Infinity is the bracket with unbounded |-> TRUE; rates in tenths
\* of a percent
IR_TABLE ==
    << [maxDays |-> 180, unbounded |-> FALSE, rate |-> 225],
       [maxDays |-> 360, unbounded |-> FALSE, rate |-> 200],
       [maxDays |-> 720, unbounded |-> FALSE, rate |-> 175],
       [maxDays |-> 0,   unbounded |-> TRUE,  rate |-> 150] >>

IOF_TABLE ==
    << 96, 93, 90, 86, 83, 80, 76, 73, 70, 66,
       63, 60, 56, 53, 50, 46, 43, 40, 36, 33,
       30, 26, 23, 20, 16, 13, 10, 6, 3, 0 >>

IR_FALLTHROUGH == 150
IOF_FIRST_DAY == 96
IOF_DAYS == 30

\* Variant: brackets that exclude their upper bound
InBracket_exclusive(calendarDays, bracket) ==
    bracket.unbounded \/ calendarDays < bracket.maxDays

InBracket(calendarDays, bracket) ==
    bracket.unbounded \/ calendarDays <= bracket.maxDays

RECURSIVE IRLoop(_, _)
IRLoop(calendarDays, i) ==
    IF i > Len(IR_TABLE) THEN IR_FALLTHROUGH
    ELSE IF InBracket(calendarDays, IR_TABLE[i]) THEN IR_TABLE[i].rate
    ELSE IRLoop(calendarDays, i + 1)

getIRRate(calendarDays) == IRLoop(calendarDays, 1)

\* Variant: the table indexed by the day instead of the day minus one
getIOFRate_offByOne(calendarDays) ==
    IF calendarDays <= 0 THEN IOF_FIRST_DAY
    ELSE IF calendarDays >= IOF_DAYS THEN 0
    ELSE IOF_TABLE[calendarDays + 1]

getIOFRate(calendarDays) ==
    IF calendarDays <= 0 THEN IOF_FIRST_DAY
    ELSE IF calendarDays > IOF_DAYS THEN 0
    ELSE IOF_TABLE[calendarDays]

\* Variant: the rate applied to a loss as to a gain
calculateIOF_unclamped(grossReturn, calendarDays) ==
    (grossReturn \div 100) * getIOFRate(calendarDays)

calculateIOF(grossReturn, calendarDays) ==
    IF grossReturn <= 0 THEN 0
    ELSE (grossReturn \div 100) * getIOFRate(calendarDays)

\* Variant: tax B on the full gross return
calculateIR_onGross(grossReturn, iofAmount, calendarDays) ==
    IF grossReturn <= 0 THEN 0
    ELSE (grossReturn \div 1000) * getIRRate(calendarDays)

calculateIR(grossReturn, iofAmount, calendarDays) ==
    LET baseIR == grossReturn - iofAmount
    IN  IF baseIR <= 0 THEN 0
        ELSE (baseIR \div 1000) * getIRRate(calendarDays)

----------------------------------------------------------------------------
\* InvestmentCalculator

\* A hundredth of a percent as a fixed-point fraction
BasisPoint == RateScale \div 10000
\* Atoms to the cent
CentAtoms == Atoms \div 100

\* (Math.pow(netValue / principal, 365 / calendarDays) - 1) * 100, in
\* hundredths of a percent; 0 / 0 is NaN and so is every power of it
annualise(netValue, principal, calendarDays) ==
    IF principal = 0 THEN [nan |-> TRUE, value |-> 0]
    ELSE LET ratio == DivFix(netValue \div CentAtoms, principal \div CentAtoms)
             perDay == RootFix(ratio, calendarDays,
                               Min(RateScale, ratio), Max(RateScale, ratio))
             perYear == PowFix(perDay, CALENDAR_DAYS_PER_YEAR)
         IN  [nan |-> FALSE, value |-> (perYear - RateScale) \div BasisPoint]

\* Variant: the exemption flag is not consulted
taxes_ignoringExemption(inv, grossReturn, calendarDays) ==
    LET iofAmount == calculateIOF(grossReturn, calendarDays)
    IN  [iofRate |-> getIOFRate(calendarDays),
         iofAmount |-> iofAmount,
         irRate |-> getIRRate(calendarDays),
         irAmount |-> calculateIR(grossReturn, iofAmount, calendarDays)]

\* Variant: the tax B bracket looked up with the business-day count
taxes_onBusinessDays(inv, grossReturn, calendarDays) ==
    IF ~inv.isExemptFromIR
    THEN LET iofAmount == calculateIOF(grossReturn, calendarDays)
             businessDays == estimateBusinessDays(calendarDays)
         IN  [iofRate |-> getIOFRate(calendarDays),
              iofAmount |-> iofAmount,
              irRate |-> getIRRate(businessDays),
              irAmount |-> calculateIR(grossReturn, iofAmount, businessDays)]
    ELSE [iofRate |-> 0, iofAmount |-> 0, irRate |-> 0, irAmount |-> 0]

\* The tax block of calculate: both amounts and both rates
taxes(inv, grossReturn, calendarDays) ==
    IF ~inv.isExemptFromIR
    THEN LET iofAmount == calculateIOF(grossReturn, calendarDays)
         IN  [iofRate |-> getIOFRate(calendarDays),
              iofAmount |-> iofAmount,
              irRate |-> getIRRate(calendarDays),
              irAmount |-> calculateIR(grossReturn, iofAmount, calendarDays)]
    ELSE [iofRate |-> 0, iofAmount |-> 0, irRate |-> 0, irAmount |-> 0]

calculate(inv, date, cdiRate) ==
    LET depositDate == inv.depositDate
        calendarDays == getCalendarDays(depositDate, date)
        businessDays == estimateBusinessDays(calendarDays)
        cdiDailyRate == annualToDaily(cdiRate)
        effectiveDailyRate == (cdiDailyRate * inv.cdiPercentage) \div 100
        grossMultiplier == PowFix(RateScale + effectiveDailyRate, businessDays)
        grossValue == MulMoney(inv.principal, grossMultiplier)
        grossReturn == grossValue - inv.principal
        tax == taxes(inv, grossReturn, calendarDays)
        netValue == grossValue - tax.iofAmount - tax.irAmount
        netReturn == netValue - inv.principal
        effectiveRate == IF calendarDays > 0
                         THEN annualise(netValue, inv.principal, calendarDays)
                         ELSE [nan |-> FALSE, value |-> 0]
    IN  [grossValue |-> grossValue,
         grossReturn |-> grossReturn,
         iofAmount |-> tax.iofAmount,
         irAmount |-> tax.irAmount,
         netValue |-> netValue,
         netReturn |-> netReturn,
         effectiveRate |-> effectiveRate,
         daysInvested |-> calendarDays,
         businessDays |-> businessDays,
         irRate |-> tax.irRate,
         iofRate |-> tax.iofRate]

----------------------------------------------------------------------------
\* ExpenseManager.  An Expense is a record [id, totalAmount, installments,
\* currentInstallment, monthlyAmount, startDate, isPaid, paymentDate]; the
\* optional paymentDate is <<>> when undefined and <<date>> otherwise.  The
\* description and the category are strings no computation reads; they are
\* left out of the record.

\* Variant: whole periods of 30 days between the two dates
getMonthsDifference_byDays(startDate, endDate) ==
    (DayNumber(endDate) - DayNumber(startDate)) \div 30

getMonthsDifference(startDate, endDate) ==
    (getFullYear(endDate) - getFullYear(startDate)) * MonthsPerYear
        + (getMonth(endDate) - getMonth(startDate))

\* Variant: one installment too many
monthlyStep_inclusive(total, expense, date) ==
    IF expense.isPaid THEN total
    ELSE IF expense.paymentDate # <<>> /\ date < expense.paymentDate[1] THEN total
    ELSE LET monthsDiff == getMonthsDifference(expense.startDate, date)
         IN  IF monthsDiff >= 0 /\ monthsDiff <= expense.installments
             THEN total + expense.monthlyAmount
             ELSE total

\* Variant: the paid flag is not consulted
monthlyStep_ignoringPaid(total, expense, date) ==
    IF expense.paymentDate # <<>> /\ date < expense.paymentDate[1] THEN total
    ELSE LET monthsDiff == getMonthsDifference(expense.startDate, date)
         IN  IF monthsDiff >= 0 /\ monthsDiff < expense.installments
             THEN total + expense.monthlyAmount
             ELSE total

\* The callback of the reduce in getMonthlyExpenses
monthlyStep(total, expense, date) ==
    IF expense.isPaid THEN total
    ELSE IF expense.paymentDate # <<>> /\ date < expense.paymentDate[1] THEN total
    ELSE LET monthsDiff == getMonthsDifference(expense.startDate, date)
         IN  IF monthsDiff >= 0 /\ monthsDiff < expense.installments
             THEN total + expense.monthlyAmount
             ELSE total

RECURSIVE monthlyReduce(_, _, _, _)
monthlyReduce(list, date, i, total) ==
    IF i > Len(list) THEN total
    ELSE monthlyReduce(list, date, i + 1, monthlyStep(total, list[i], date))

getMonthlyExpenses(list, date) == monthlyReduce(list, date, 1, 0)

\* Variant: the remaining installments are not clamped at 0
pendingStep_unclamped(total, expense) ==
    IF expense.isPaid THEN total
    ELSE LET remainingInstallments ==
                 expense.installments - expense.currentInstallment + 1
         IN  total + expense.monthlyAmount * remainingInstallments

\* The callback of the reduce in getTotalPendingExpenses
pendingStep(total, expense) ==
    IF expense.isPaid THEN total
    ELSE LET remainingInstallments ==
                 expense.installments - expense.currentInstallment + 1
         IN  total + expense.monthlyAmount * Max(0, remainingInstallments)

RECURSIVE pendingReduce(_, _, _)
pendingReduce(list, i, total) ==
    IF i > Len(list) THEN total
    ELSE pendingReduce(list, i + 1, pendingStep(total, list[i]))

getTotalPendingExpenses(list) == pendingReduce(list, 1, 0)

\* ExpenseList: the total shown on the expense card
totalPendingStep(sum, exp) ==
    IF exp.isPaid THEN sum
    ELSE LET remaining == exp.installments - exp.currentInstallment + 1
         IN  sum + exp.monthlyAmount * Max(0, remaining)

RECURSIVE totalPendingReduce(_, _, _)
totalPendingReduce(list, i, sum) ==
    IF i > Len(list) THEN sum
    ELSE totalPendingReduce(list, i + 1, totalPendingStep(sum, list[i]))

totalPending(list) == totalPendingReduce(list, 1, 0)

----------------------------------------------------------------------------
\* FinancialEngine.projectWealth.  The arguments are a record [investments,
\* expenses, months, cdiAnnualRate, monthlySavings]; startDate is the value
\* new Date() gives when the call is made.

RECURSIVE totalNetValue(_, _, _, _, _)
totalNetValue(list, date, cdiRate, i, sum) ==
    IF i > Len(list) THEN sum
    ELSE totalNetValue(list, date, cdiRate, i + 1,
                       sum + calculate(list[i], date, cdiRate).netValue)

RECURSIVE totalPrincipal(_, _, _)
totalPrincipal(list, i, sum) ==
    IF i > Len(list) THEN sum
    ELSE totalPrincipal(list, i + 1, sum + list[i].principal)

\* Variant: the contribution of month j has earned i - j + 1 months
monthsOfReturn_inclusive(i, j) == i - j + 1

monthsOfReturn(i, j) == i - j

\* The inner loop: the contributions of the months 1..i with their returns
RECURSIVE savingsLoop(_, _, _, _, _)
savingsLoop(i, j, monthlySavings, monthlyRate, accumulatedSavings) ==
    IF j > i THEN accumulatedSavings
    ELSE savingsLoop(i, j + 1, monthlySavings, monthlyRate,
             accumulatedSavings
                 + MulFix(monthlySavings,
                          PowFix(RateScale + monthlyRate, monthsOfReturn(i, j))))

\* Variant: the expenses of the month alone are subtracted
accumulatedWealthOf_monthOnly(totalBruto, totalAccumulatedExpenses, monthlyExpenses) ==
    totalBruto - monthlyExpenses

accumulatedWealthOf(totalBruto, totalAccumulatedExpenses, monthlyExpenses) ==
    totalBruto - totalAccumulatedExpenses

\* Variant: the return of the month as computed, negative or not
reportedReturn_unclamped(monthlyReturn) == monthlyReturn

reportedReturn(monthlyReturn) == Max(0, monthlyReturn)

\* Variant: the loop stops one month short
loopRuns_exclusive(i, months) == i < months

loopRuns(i, months) == i <= months

\* One pass of the loop: the point of month i and the running expense total
projectionPoint(a, startDate, monthlyRate, i, results, accumulatedExpenses) ==
    LET date == addMonths(startDate, i)
        totalInvestments ==
            totalNetValue(a.investments, date, a.cdiAnnualRate, 1, 0)
        accumulatedSavings ==
            savingsLoop(i, 1, a.monthlySavings, monthlyRate, 0)
        monthlyExpenses == getMonthlyExpenses(a.expenses, date)
        totalAccumulatedExpenses == accumulatedExpenses + monthlyExpenses
        totalBruto == totalInvestments + accumulatedSavings
        accumulatedWealth ==
            accumulatedWealthOf(totalBruto, totalAccumulatedExpenses,
                                monthlyExpenses)
        previousTotal == IF i > 0 THEN results[i].totalInvestments
                         ELSE totalPrincipal(a.investments, 1, 0)
        monthlyReturn ==
            IF i > 0
            THEN totalInvestments - previousTotal
                     + MulFix(a.monthlySavings, monthlyRate)
            ELSE 0
    IN  [point |-> [month |-> [y |-> getFullYear(date), m |-> getMonth(date)],
                    date |-> date,
                    totalInvestments |-> accumulatedWealth,
                    totalExpenses |-> monthlyExpenses,
                    netWorth |-> accumulatedWealth,
                    monthlyReturn |-> reportedReturn(monthlyReturn)],
         totalAccumulatedExpenses |-> totalAccumulatedExpenses]

RECURSIVE projectLoop(_, _, _, _, _, _)
projectLoop(a, startDate, monthlyRate, i, results, accumulatedExpenses) ==
    IF ~loopRuns(i, a.months) THEN results
    ELSE LET step == projectionPoint(a, startDate, monthlyRate, i, results,
                                     accumulatedExpenses)
         IN  projectLoop(a, startDate, monthlyRate, i + 1,
                         Append(results, step.point),
                         step.totalAccumulatedExpenses)

projectWealth(a, startDate) ==
    projectLoop(a, startDate, annualToMonthly(a.cdiAnnualRate), 0, <<>>, 0)

----------------------------------------------------------------------------
\* CDIService.fetchCurrentCDI.  Rates are in hundredths of a percent, times
\* in milliseconds.  A call is a record [pc, value, failure, fromCache,
\* startedAt, storedAt]: pc is "idle" before the call, "fetch" while fetch() is awaited,
\* "json" while response.json() is awaited, "resolved" or "rejected" once
\* the promise is settled.

CACHE_DURATION_MS == 3600000
FALLBACK_CDI == 1490

NewCall ==
    [pc |-> "idle", value |-> 0, failure |-> "none", fromCache |-> FALSE,
     startedAt |-> 0, storedAt |-> 0]

\* Variant: a cache exactly one hour old is still served
cacheFresh_inclusive(cached, last, t) ==
    cached # NoRet /\ last # NoRet /\ t - last[1] <= CACHE_DURATION_MS

\* The cache check made when a call starts
cacheFresh(cached, last, t) ==
    cached # NoRet /\ last # NoRet /\ t - last[1] < CACHE_DURATION_MS

\* Variant: the error reaches the caller
onFailure_rethrow(call, failure) ==
    [call EXCEPT !.pc = "rejected", !.failure = failure]

\* The catch block: whatever was thrown, the call returns the fallback rate
onFailure(call, failure) ==
    [call EXCEPT !.pc = "resolved", !.value = FALLBACK_CDI,
                 !.failure = failure]

\* Variant: the fallback rate is cached like a fetched one
afterFailure_cached(cached, last, t) ==
    [cachedCDI |-> Ret(FALLBACK_CDI), lastFetch |-> Ret(t)]

\* The catch block assigns neither cachedCDI nor lastFetch
afterFailure(cached, last, t) ==
    [cachedCDI |-> cached, lastFetch |-> last]

\* Variant: a rate already cached is kept
store_firstWins(cached, last, annualRate, t) ==
    IF cached # NoRet THEN [cachedCDI |-> cached, lastFetch |-> last]
    ELSE [cachedCDI |-> Ret(annualRate), lastFetch |-> Ret(t)]

\* The two assignments after a body with data: no await separates them
store(cached, last, annualRate, t) ==
    [cachedCDI |-> Ret(annualRate), lastFetch |-> Ret(t)]

----------------------------------------------------------------------------
\* The expense form and the handlers of Index

\* Local time minus UTC, in hours, of the browser's time zone
UtcOffset == 0 - 3

\* new Date("YYYY-MM-DD"): midnight UTC of the day, as a local Date
newDateFromInput(dayNumber) == dayNumber * HoursPerDay + UtcOffset

\* Date.toISOString (an instant in UTC) and new Date(isoString)
toISOString(t) == t - UtcOffset
newDateFromISO(iso) == iso + UtcOffset

\* totalAmount / installments: the quotient rounded to the nearest atom
Divide(a, b) ==
    IF b > 0 THEN (2 * a + b) \div (2 * b)
    ELSE (2 * (0 - a) - b) \div (2 * (0 - b))

\* A number field of the form is <<>> when empty and <<n>> when it reads n.
\* parseFloat(s) || 0, in atoms, and parseInt(s) || 1
parseTotalAmount(field) ==
    IF field = <<>> \/ field[1] = 0 THEN 0 ELSE field[1] * Atoms
parseInstallments(field) ==
    IF field = <<>> \/ field[1] = 0 THEN 1 ELSE field[1]

INSTALLMENTS_MIN == 1
INSTALLMENTS_MAX == 48

\* Variant: the installments input without its min attribute
formValid_noMin(formData) ==
    /\ formData.totalAmount # <<>>
    /\ formData.installments # <<>>
    /\ formData.installments[1] <= INSTALLMENTS_MAX

\* The browser submits the form only when every input is valid: the amount
\* and the installments are required numbers, installments within min..max
formValid(formData) ==
    /\ formData.totalAmount # <<>>
    /\ formData.installments # <<>>
    /\ formData.installments[1] >= INSTALLMENTS_MIN
    /\ formData.installments[1] <= INSTALLMENTS_MAX

\* generateId: an id no expense of the list carries
generateId(list) ==
    CHOOSE id \in 1..(Len(list) + 1) : \A i \in 1..Len(list) : list[i].id # id

\* The Expense handleSubmit hands to onAdd
submittedExpense(formData, id) ==
    LET totalAmount == parseTotalAmount(formData.totalAmount)
        installments == parseInstallments(formData.installments)
    IN  [id |-> id,
         totalAmount |-> totalAmount,
         installments |-> installments,
         currentInstallment |-> 1,
         monthlyAmount |-> Divide(totalAmount, installments),
         startDate |-> newDateFromInput(formData.startDate),
         isPaid |-> formData.isPaid,
         paymentDate |-> IF formData.paymentDate # <<>>
                         THEN <<newDateFromInput(formData.paymentDate[1])>>
                         ELSE <<>>]

\* Variant: marking an expense paid also moves it to its last installment
toggledExpense_settling(expense) ==
    [expense EXCEPT !.isPaid = ~expense.isPaid,
                    !.currentInstallment = expense.installments]

\* The Expense handleTogglePaid hands to onUpdate
toggledExpense(expense) == [expense EXCEPT !.isPaid = ~expense.isPaid]

handleAddExpense(list, expense) == Append(list, expense)

handleRemoveExpense(list, id) == SelectSeq(list, LAMBDA exp : exp.id # id)

handleUpdateExpense(list, updatedExpense) ==
    [i \in 1..Len(list) |->
        IF list[i].id = updatedExpense.id THEN updatedExpense ELSE list[i]]

\* localStorage.setItem('expenses', JSON.stringify(expenses)): dates become
\* ISO strings, an undefined paymentDate is left out
stringifyExpense(exp) ==
    [exp EXCEPT !.startDate = toISOString(exp.startDate),
                !.paymentDate = IF exp.paymentDate # <<>>
                                THEN <<toISOString(exp.paymentDate[1])>>
                                ELSE <<>>]
stringifyExpenses(list) == [i \in 1..Len(list) |-> stringifyExpense(list[i])]

\* The load on mount: JSON.parse, then the dates rebuilt (every saved
\* expense carries its isPaid, so isPaid ?? false keeps it)
loadExpense(exp) ==
    [exp EXCEPT !.startDate = newDateFromISO(exp.startDate),
                !.paymentDate = IF exp.paymentDate # <<>>
                                THEN <<newDateFromISO(exp.paymentDate[1])>>
                                ELSE <<>>]
loadExpenses(saved) == [i \in 1..Len(saved) |-> loadExpense(saved[i])]

----------------------------------------------------------------------------
\* Index and FinancialGoals: the list of goals.  A FinancialGoal is a record
\* [id, name, targetAmount, currentAmount, isCompleted, completedAt]; the
\* optional completedAt is <<>> when undefined and <<date>> otherwise.  The
\* deadline, the category and createdAt are copied like the name and read by
\* no handler; they are left out of the record.

handleAddGoal(list, goal) == Append(list, goal)

handleRemoveGoal(list, id) ==
    LET Kept(g) == g.id # id
    IN  SelectSeq(list, Kept)

\* Variant: every goal is replaced by the updated one
handleUpdateGoal_all(list, updatedGoal) ==
    [i \in 1..Len(list) |-> updatedGoal]

handleUpdateGoal(list, updatedGoal) ==
    [i \in 1..Len(list) |->
        IF list[i].id = updatedGoal.id THEN updatedGoal ELSE list[i]]

\* The effect's test of one goal
reached(goal) == ~goal.isCompleted /\ goal.currentAmount >= goal.targetAmount

\* {...goal, isCompleted: true, completedAt: new Date()}
completedGoal(goal, t) ==
    [goal EXCEPT !.isCompleted = TRUE, !.completedAt = <<t>>]

\* The lists the effect hands to setGoals, one for each goal of the rendered
\* list that has reached its target, in the order of the list: onUpdate is
\* the handleUpdateGoal of the same render, which maps over the rendered list
setGoalsCalls(rendered, t) ==
    LET hits == SelectSeq(rendered, reached)
    IN  [k \in 1..Len(hits) |->
            handleUpdateGoal(rendered, completedGoal(hits[k], t))]

\* React applies the queued setGoals calls in order before the next render;
\* each one replaces the state
afterSetGoals(state, queued) ==
    IF queued = <<>> THEN state ELSE queued[Len(queued)]

----------------------------------------------------------------------------
\* What a call leaves of its arguments.  A Date is an object: setHours,
\* setDate and setMonth change it in place, so a function changes a Date it
\* was given unless it works on a Date of its own.  The engine changes no
\* other object in place: it assigns no field of a position or an obligation
\* and calls only reduce on the lists.

\* Variant: the Date given is worked on directly
workingCopy_alias(date) == [own |-> FALSE, time |-> date]

\* new Date(date): a Date of the function's own, at the same instant
workingCopy(date) == [own |-> TRUE, time |-> date]

\* The instant of a Date given to a function after the call, when the Date
\* the function worked on was left at finalTime
argumentAfter(date, working, finalTime) ==
    IF working.own THEN date ELSE finalTime

\* getCalendarDays sets start and end to midnight
getCalendarDaysInputs(startDate, endDate) ==
    LET start == workingCopy(startDate)
        end == workingCopy(endDate)
    IN  [startDate |-> argumentAfter(startDate, start, Midnight(start.time)),
         endDate |-> argumentAfter(endDate, end, Midnight(end.time))]

\* getBusinessDays sets current and end to midnight and moves current
\* forward a day at a time until it is no longer before end
getBusinessDaysInputs(startDate, endDate) ==
    LET current == workingCopy(startDate)
        end == workingCopy(endDate)
    IN  [startDate |->
             argumentAfter(startDate, current,
                           Max(Midnight(current.time), Midnight(end.time))),
         endDate |-> argumentAfter(endDate, end, Midnight(end.time))]

\* calculate hands depositDate and the currentDate it was given to
\* getCalendarDays
calculateInputs(inv, date) ==
    LET depositDate == workingCopy(inv.depositDate)
        inner == getCalendarDaysInputs(depositDate.time, date)
    IN  [investment |->
             [inv EXCEPT !.depositDate =
                 argumentAfter(@, depositDate, inner.startDate)],
         currentDate |-> inner.endDate]

\* getMonthlyExpenses reads paymentDate and startDate through Dates that are
\* only compared, and only reads targetDate
getMonthlyExpensesInputs(list, date) ==
    [expenses |->
         [i \in 1..Len(list) |->
             LET startDate == workingCopy(list[i].startDate)
             IN  [list[i] EXCEPT !.startDate =
                     argumentAfter(@, startDate, startDate.time)]],
     targetDate |-> date]

\* getTotalPendingExpenses reads numbers only
getTotalPendingExpensesInputs(list) == list

\* projectWealth hands every position to calculate and the list of
\* obligations to getMonthlyExpenses, each time with a targetDate of its own
projectWealthInputs(args, today) ==
    LET startDate == today
        target == workingCopy(startDate)
    IN  [args EXCEPT
            !.investments =
                [i \in 1..Len(@) |->
                    calculateInputs(@[i], target.time).investment],
            !.expenses =
                getMonthlyExpensesInputs(@, target.time).expenses]

----------------------------------------------------------------------------
\* Bounds and input sets

NegDays == 5
MaxDays == 800
MaxArgLen == 2
MaxMonthOffset == 13
MaxExpenses == 2

\* calculate: positions deposited on 2024-01-15, at midnight or at noon,
\* valued at midnight or at noon of a day DayOffsets away
DepositDay == DaysFromCivil(2024, 0, 15)
DayOffsets == {0 - 1, 0, 1, 2, 29, 30, 31, 180, 181, 360, 361, 365, 720, 721}
DayHours == {0, 12}
Principals == {0, 10000}
CdiPercentages == {100, 110}
CdiRates == {0 - 1000, 0, 1490}

Investments ==
    {[principal |-> p * Atoms, cdiPercentage |-> c,
      depositDate |-> DepositDay * HoursPerDay + h, isExemptFromIR |-> x] :
        p \in Principals, c \in CdiPercentages, h \in DayHours, x \in BOOLEAN}

ValuationDates ==
    {(DepositDay + o) * HoursPerDay + h : o \in DayOffsets, h \in DayHours}

\* ExpenseManager: obligations of 1200 starting on 2024-01-31, some paid, some
\* deferred to 2024-06-15, some with the installment index past the last one
StartDate == DateOf(2024, 0, 31, 0)
DeferredDate == DateOf(2024, 5, 15, 0)
ArgTotal == 1200 * Atoms
ArgInstallments == {1, 12}

ExpenseArgs ==
    {[id |-> 0, totalAmount |-> ArgTotal, installments |-> n,
      currentInstallment |-> c, monthlyAmount |-> Divide(ArgTotal, n),
      startDate |-> StartDate, isPaid |-> paid, paymentDate |-> pd] :
        n \in ArgInstallments, c \in {1, 14}, paid \in BOOLEAN,
        pd \in {<<>>, <<DeferredDate>>}}

ExpenseLists ==
    UNION {[1..n -> ExpenseArgs] : n \in 1..MaxArgLen}

\* The first or the 28th day of the month k months after January 2024
TargetDates ==
    {DateOf(2024 + k \div MonthsPerYear, k % MonthsPerYear, d, 0) :
        k \in (0 - 1)..MaxMonthOffset, d \in {1, 28}}

\* The expense form: what the user may have typed when pressing submit
FormData ==
    [totalAmount : {<<>>, <<1000>>, <<1200>>},
     installments : {<<>>, <<0 - 2>>, <<0>>, <<3>>, <<12>>, <<49>>},
     startDate : {DaysFromCivil(2024, 0, 31)},
     isPaid : BOOLEAN,
     paymentDate : {<<>>, <<DaysFromCivil(2024, 5, 15)>>}]

\* projectWealth: up to MaxPositions positions deposited on 2024-01-15 and up
\* to MaxObligations obligations, projected over 0..MaxMonths months from
\* one of Todays, with and without a monthly contribution
MaxPositions == 1
MaxObligations == 1
MaxMonths == 3
MaxTicks == 1
TickHours == HoursPerDay

ProjInvestments ==
    {[principal |-> 1000 * Atoms, cdiPercentage |-> 100,
      depositDate |-> DepositDay * HoursPerDay, isExemptFromIR |-> FALSE],
     [principal |-> 5000 * Atoms, cdiPercentage |-> 100,
      depositDate |-> DepositDay * HoursPerDay, isExemptFromIR |-> TRUE]}

ProjExpenses ==
    {[id |-> 0, totalAmount |-> ArgTotal, installments |-> 12,
      currentInstallment |-> 1, monthlyAmount |-> Divide(ArgTotal, 12),
      startDate |-> StartDate, isPaid |-> FALSE, paymentDate |-> <<>>],
     [id |-> 1, totalAmount |-> 3000 * Atoms, installments |-> 1,
      currentInstallment |-> 1, monthlyAmount |-> 3000 * Atoms,
      startDate |-> DateOf(2024, 2, 10, 0), isPaid |-> FALSE,
      paymentDate |-> <<>>]}

ProjectionArgs ==
    [investments : UNION {[1..n -> ProjInvestments] : n \in 0..MaxPositions},
     expenses : UNION {[1..n -> ProjExpenses] : n \in 0..MaxObligations},
     months : 0..MaxMonths,
     cdiAnnualRate : {1490},
     monthlySavings : {0, 1000 * Atoms}]

Todays == {DateOf(2024, 0, 15, 10), DateOf(2024, 0, 31, 10)}

\* annualToDaily and dailyToAnnual in binary64: annual rates of
\* +-100 * 2^(e - 60) percent, from 8.7e-17 % to 9.3e-8 %, and 0
RateExponents == {0, 6, 7, 8, 10, 16, 20, 24, 30}
TinyRates ==
    {0} \cup {2^e + k : e \in RateExponents, k \in {0, 1}}
        \cup {0 - 2^e : e \in RateExponents}
PowOutcomes == {0, 1}

\* FinancialGoals: up to MaxGoals goals; a goal loaded from localStorage may
\* already be completed, at a time before the session
MaxGoals == 2
GoalIds == 1..MaxGoals
TargetAmounts == {0, 100}
CurrentAmounts == {50, 100}
StoredTimes == {0}
GoalTimes == {1, 2}
NewGoals ==
    [id : GoalIds, name : {"car"}, targetAmount : TargetAmounts,
     currentAmount : CurrentAmounts, isCompleted : {FALSE},
     completedAt : {<<>>}]
StoredGoals ==
    NewGoals \cup {completedGoal(g, t) : g \in NewGoals, t \in StoredTimes}
GoalLists ==
    {list \in UNION {[1..n -> StoredGoals] : n \in 0..MaxGoals} :
        \A i, j \in 1..Len(list) : i # j => list[i].id # list[j].id}

\* fetchCurrentCDI: the three components that call it on mount, the rates
\* the API may answer, and the instants at which something may happen (the
\* whole hours up to MaxHours and the millisecond before each)
MaxHours == 1
Callers == {"Index", "InvestmentList", "WealthProjection"}
ApiRates == {1475, 1500}
FetchOutcomes == {"network", "notOk", "ok"}
BadBodies == {"unparsable", "empty"}
Instants ==
    {h * CACHE_DURATION_MS - e : h \in 0..MaxHours, e \in {0, 1}} \ {0 - 1}

\* getBusinessDays: a start on the 1st or the 20th of a month of 2024 or of
\* January 2025, at midnight or at noon, and an end from BackSpan days before
\* it to MaxSpan days after it
MaxSpan == 35
BackSpan == 3
BizStarts ==
    {DateOf(2024 + k \div MonthsPerYear, k % MonthsPerYear, d, h) :
        k \in 0..MonthsPerYear, d \in {1, 20}, h \in DayHours}
BizSpans == (0 - BackSpan)..MaxSpan

----------------------------------------------------------------------------
\* Specifications.  Each one drives one part of the program and holds the
\* variables of the other parts at their idle values.

IdleTax == days = 0 /\ irRate = NoRet /\ iofRate = NoRet
IdleCalc ==
    /\ investment = NoRet /\ currentDate = 0 /\ cdiAnnualRate = 0
    /\ calc = NoRet
IdleMgr ==
    /\ expenseArg = <<>> /\ targetDate = 0 /\ monthly = NoRet
    /\ pending = NoRet
IdleUI ==
    /\ expenses = <<>> /\ storage = <<>>
    /\ lastOp = [op |-> "mount", id |-> 0]
IdleProj == projArgs = NoRet /\ now = 0 /\ projCalls = <<>>
IdleCdi ==
    /\ cachedCDI = NoRet /\ lastFetch = NoRet /\ clock = 0
    /\ calls = <<>> /\ requests = 0 /\ lastDone = NoRet
IdleBiz == bizStart = 0 /\ bizEnd = 0 /\ bizDays = NoRet /\ calDays = NoRet
IdleRate ==
    rateArg = 0 /\ powUlps = <<>> /\ dailyRate = NoRet /\ roundTrip = NoRet
IdleGoals == goals = <<>> /\ effectPending = FALSE

\* TaxCalculator.getIRRate and getIOFRate applied to a day count
InitTax ==
    /\ days \in (0 - NegDays)..MaxDays
    /\ irRate = NoRet /\ iofRate = NoRet
    /\ IdleCalc /\ IdleMgr /\ IdleUI /\ IdleProj /\ IdleCdi
    /\ IdleBiz /\ IdleRate /\ IdleGoals

CallGetIRRate ==
    /\ irRate = NoRet
    /\ irRate' = Ret(getIRRate(days))
    /\ UNCHANGED <<days, iofRate, calcVars, mgrVars, uiVars, projVars, cdiVars,
                   bizVars, rateVars, goalVars>>

CallGetIOFRate ==
    /\ iofRate = NoRet
    /\ iofRate' = Ret(getIOFRate(days))
    /\ UNCHANGED <<days, irRate, calcVars, mgrVars, uiVars, projVars, cdiVars,
                   bizVars, rateVars, goalVars>>

NextTax == CallGetIRRate \/ CallGetIOFRate
TaxSpec == InitTax /\ [][NextTax]_vars

\* InvestmentCalculator.calculate applied to a position, a date and a rate
InitCalc ==
    /\ investment \in {Ret(inv) : inv \in Investments}
    /\ currentDate \in ValuationDates
    /\ cdiAnnualRate \in CdiRates
    /\ calc = NoRet
    /\ IdleTax /\ IdleMgr /\ IdleUI /\ IdleProj /\ IdleCdi
    /\ IdleBiz /\ IdleRate /\ IdleGoals

CallCalculate ==
    /\ calc = NoRet
    /\ calc' = Ret(calculate(investment[1], currentDate, cdiAnnualRate))
    /\ LET after == calculateInputs(investment[1], currentDate)
       IN  /\ investment' = Ret(after.investment)
           /\ currentDate' = after.currentDate
    /\ UNCHANGED <<cdiAnnualRate,
                   taxVars, mgrVars, uiVars, projVars, cdiVars,
                   bizVars, rateVars, goalVars>>

NextCalc == CallCalculate
CalcSpec == InitCalc /\ [][NextCalc]_vars

\* ExpenseManager applied to a list of obligations
InitMgr ==
    /\ expenseArg \in ExpenseLists
    /\ targetDate = 0 /\ monthly = NoRet /\ pending = NoRet
    /\ IdleTax /\ IdleCalc /\ IdleUI /\ IdleProj /\ IdleCdi
    /\ IdleBiz /\ IdleRate /\ IdleGoals

CallGetMonthlyExpenses ==
    /\ monthly = NoRet /\ pending = NoRet
    /\ \E t \in TargetDates :
          /\ monthly' = Ret(getMonthlyExpenses(expenseArg, t))
          /\ LET after == getMonthlyExpensesInputs(expenseArg, t)
             IN  /\ expenseArg' = after.expenses
                 /\ targetDate' = after.targetDate
    /\ UNCHANGED <<pending, taxVars, calcVars, uiVars,
                   projVars, cdiVars,
                   bizVars, rateVars, goalVars>>

CallGetTotalPendingExpenses ==
    /\ monthly = NoRet /\ pending = NoRet
    /\ pending' = Ret(getTotalPendingExpenses(expenseArg))
    /\ expenseArg' = getTotalPendingExpensesInputs(expenseArg)
    /\ UNCHANGED <<targetDate, monthly, taxVars, calcVars, uiVars,
                   projVars, cdiVars,
                   bizVars, rateVars, goalVars>>

NextMgr == CallGetMonthlyExpenses \/ CallGetTotalPendingExpenses
MgrSpec == InitMgr /\ [][NextMgr]_vars

\* The expense list of Index: the state after the first mount (nothing saved
\* yet, the save effect has written the empty list), then the handlers.  The
\* save effect that follows every change of the list is part of the step.
Init ==
    /\ expenses = <<>>
    /\ storage = stringifyExpenses(<<>>)
    /\ lastOp = [op |-> "mount", id |-> 0]
    /\ IdleTax /\ IdleCalc /\ IdleMgr /\ IdleProj /\ IdleCdi
    /\ IdleBiz /\ IdleRate /\ IdleGoals

SetExpenses(list, op, id) ==
    /\ expenses' = list
    /\ storage' = stringifyExpenses(list)
    /\ lastOp' = [op |-> op, id |-> id]
    /\ UNCHANGED <<taxVars, calcVars, mgrVars, projVars, cdiVars,
                   bizVars, rateVars, goalVars>>

HandleSubmit ==
    /\ Len(expenses) < MaxExpenses
    /\ \E formData \in FormData :
          /\ formValid(formData)
          /\ LET id == generateId(expenses)
             IN  SetExpenses(
                     handleAddExpense(expenses, submittedExpense(formData, id)),
                     "submit", id)

HandleTogglePaid ==
    \E i \in 1..Len(expenses) :
        SetExpenses(handleUpdateExpense(expenses, toggledExpense(expenses[i])),
                    "togglePaid", expenses[i].id)

HandleRemove ==
    \E i \in 1..Len(expenses) :
        SetExpenses(handleRemoveExpense(expenses, expenses[i].id),
                    "remove", expenses[i].id)

\* The page is loaded again: the list is rebuilt from localStorage
Mount ==
    SetExpenses(loadExpenses(storage), "mount", 0)

Next == HandleSubmit \/ HandleTogglePaid \/ HandleRemove \/ Mount
Spec == Init /\ [][Next]_vars

\* FinancialEngine.projectWealth called twice with the same arguments while
\* the clock runs: each call reads new Date() when it is made
InitProj ==
    /\ projArgs \in ProjectionArgs
    /\ now \in Todays
    /\ projCalls = <<>>
    /\ IdleTax /\ IdleCalc /\ IdleMgr /\ IdleUI /\ IdleCdi
    /\ IdleBiz /\ IdleRate /\ IdleGoals

Tick ==
    /\ \E today \in Todays : now - today \in 0..((MaxTicks - 1) * TickHours)
    /\ now' = now + TickHours
    /\ UNCHANGED <<projArgs, projCalls,
                   taxVars, calcVars, mgrVars, uiVars, cdiVars,
                   bizVars, rateVars, goalVars>>

CallProjectWealth ==
    /\ Len(projCalls) < 2
    /\ projCalls' = Append(projCalls,
                           [startDate |-> now,
                            points |-> projectWealth(projArgs, now)])
    /\ projArgs' = projectWealthInputs(projArgs, now)
    /\ UNCHANGED <<now,
                   taxVars, calcVars, mgrVars, uiVars, cdiVars,
                   bizVars, rateVars, goalVars>>

NextProj == Tick \/ CallProjectWealth
ProjSpec == InitProj /\ [][NextProj]_vars

\* CDIService.fetchCurrentCDI called once by each of the three components,
\* the calls interleaving at their awaits while time passes
InitCdi ==
    /\ cachedCDI = NoRet /\ lastFetch = NoRet
    /\ clock = 0
    /\ calls = [c \in Callers |-> NewCall]
    /\ requests = 0 /\ lastDone = NoRet
    /\ IdleTax /\ IdleCalc /\ IdleMgr /\ IdleUI /\ IdleProj
    /\ IdleBiz /\ IdleRate /\ IdleGoals

TimePasses ==
    /\ \E t \in Instants : t > clock /\ clock' = t
    /\ UNCHANGED <<cachedCDI, lastFetch, calls, requests, lastDone,
                   taxVars, calcVars, mgrVars, uiVars, projVars,
                   bizVars, rateVars, goalVars>>

\* The call starts: the cached rate, or fetch() and the first await
Start(c) ==
    /\ calls[c].pc = "idle"
    /\ IF cacheFresh(cachedCDI, lastFetch, clock)
       THEN /\ calls' = [calls EXCEPT ![c].pc = "resolved",
                                      ![c].value = cachedCDI[1],
                                      ![c].fromCache = TRUE,
                                      ![c].startedAt = clock]
            /\ requests' = requests
       ELSE /\ calls' = [calls EXCEPT ![c].pc = "fetch",
                                      ![c].startedAt = clock]
            /\ requests' = requests + 1
    /\ UNCHANGED <<cachedCDI, lastFetch, clock, lastDone,
                   taxVars, calcVars, mgrVars, uiVars, projVars,
                   bizVars, rateVars, goalVars>>

\* fetch() settles: a network error, a response that is not ok, or a
\* response whose body is read next
FetchSettles(c) ==
    /\ calls[c].pc = "fetch"
    /\ \E outcome \in FetchOutcomes :
          IF outcome = "ok"
          THEN /\ calls' = [calls EXCEPT ![c].pc = "json"]
               /\ UNCHANGED <<cachedCDI, lastFetch>>
          ELSE LET kept == afterFailure(cachedCDI, lastFetch, clock)
               IN  /\ calls' = [calls EXCEPT ![c] = onFailure(@, outcome)]
                   /\ cachedCDI' = kept.cachedCDI
                   /\ lastFetch' = kept.lastFetch
    /\ UNCHANGED <<clock, requests, lastDone,
                   taxVars, calcVars, mgrVars, uiVars, projVars,
                   bizVars, rateVars, goalVars>>

\* response.json() settles with a body that cannot be parsed or has no data
JsonFails(c) ==
    /\ calls[c].pc = "json"
    /\ \E body \in BadBodies :
          calls' = [calls EXCEPT ![c] = onFailure(@, body)]
    /\ LET kept == afterFailure(cachedCDI, lastFetch, clock)
       IN  cachedCDI' = kept.cachedCDI /\ lastFetch' = kept.lastFetch
    /\ UNCHANGED <<clock, requests, lastDone,
                   taxVars, calcVars, mgrVars, uiVars, projVars,
                   bizVars, rateVars, goalVars>>

\* response.json() settles with a rate: it is cached and returned
JsonSucceeds(c) ==
    /\ calls[c].pc = "json"
    /\ \E annualRate \in ApiRates :
          LET stored == store(cachedCDI, lastFetch, annualRate, clock)
          IN  /\ cachedCDI' = stored.cachedCDI
              /\ lastFetch' = stored.lastFetch
              /\ calls' = [calls EXCEPT ![c].pc = "resolved",
                                        ![c].value = annualRate,
                                        ![c].storedAt = clock]
    /\ lastDone' = Ret(c)
    /\ UNCHANGED <<clock, requests,
                   taxVars, calcVars, mgrVars, uiVars, projVars,
                   bizVars, rateVars, goalVars>>

NextCdi ==
    \/ TimePasses
    \/ \E c \in Callers : Start(c)
    \/ \E c \in Callers : FetchSettles(c)
    \/ \E c \in Callers : JsonFails(c)
    \/ \E c \in Callers : JsonSucceeds(c)
CdiSpec == InitCdi /\ [][NextCdi]_vars

\* BusinessDaysCalculator.getBusinessDays and getCalendarDays applied to two
\* dates
InitBiz ==
    /\ bizStart \in BizStarts
    /\ \E span \in BizSpans, h \in DayHours :
          bizEnd = (DayNumber(bizStart) + span) * HoursPerDay + h
    /\ bizDays = NoRet /\ calDays = NoRet
    /\ IdleTax /\ IdleCalc /\ IdleMgr /\ IdleUI /\ IdleProj /\ IdleCdi
    /\ IdleRate /\ IdleGoals

CallGetBusinessDays ==
    /\ bizDays = NoRet
    /\ bizDays' = Ret(getBusinessDays(bizStart, bizEnd))
    /\ LET after == getBusinessDaysInputs(bizStart, bizEnd)
       IN  bizStart' = after.startDate /\ bizEnd' = after.endDate
    /\ UNCHANGED <<calDays,
                   taxVars, calcVars, mgrVars, uiVars, projVars, cdiVars,
                   rateVars, goalVars>>

CallGetCalendarDays ==
    /\ calDays = NoRet
    /\ calDays' = Ret(getCalendarDays(bizStart, bizEnd))
    /\ LET after == getCalendarDaysInputs(bizStart, bizEnd)
       IN  bizStart' = after.startDate /\ bizEnd' = after.endDate
    /\ UNCHANGED <<bizDays,
                   taxVars, calcVars, mgrVars, uiVars, projVars, cdiVars,
                   rateVars, goalVars>>

NextBiz == CallGetBusinessDays \/ CallGetCalendarDays
BizSpec == InitBiz /\ [][NextBiz]_vars

\* CDIService.annualToDaily applied to a small rate, and
\* CDIService.dailyToAnnual applied to its result
InitRate ==
    /\ rateArg \in TinyRates
    /\ powUlps \in [1..2 -> PowOutcomes]
    /\ dailyRate = NoRet /\ roundTrip = NoRet
    /\ IdleTax /\ IdleCalc /\ IdleMgr /\ IdleUI /\ IdleProj /\ IdleCdi
    /\ IdleBiz /\ IdleGoals

CallAnnualToDaily ==
    /\ dailyRate = NoRet
    /\ dailyRate' = Ret(annualToDailyBinary64(rateArg, powUlps[1]))
    /\ UNCHANGED <<rateArg, powUlps, roundTrip,
                   taxVars, calcVars, mgrVars, uiVars, projVars, cdiVars,
                   bizVars, goalVars>>

CallDailyToAnnual ==
    /\ dailyRate # NoRet /\ roundTrip = NoRet
    /\ roundTrip' = Ret(dailyToAnnualBinary64(dailyRate[1], powUlps[2]))
    /\ UNCHANGED <<rateArg, powUlps, dailyRate,
                   taxVars, calcVars, mgrVars, uiVars, projVars, cdiVars,
                   bizVars, goalVars>>

NextRate == CallAnnualToDaily \/ CallDailyToAnnual
RateSpec == InitRate /\ [][NextRate]_vars

\* Index with the goals tab open: the goals loaded from localStorage have
\* been rendered and the completion effect of FinancialGoals is about to run.
\* effectPending is TRUE from a render of FinancialGoals until its effect has
\* run; React runs the effect before it handles the next event.
InitGoals ==
    /\ goals \in GoalLists
    /\ effectPending = TRUE
    /\ IdleTax /\ IdleCalc /\ IdleMgr /\ IdleUI /\ IdleProj /\ IdleCdi
    /\ IdleBiz /\ IdleRate

\* The form is submitted: generateId draws an identifier no goal carries
SubmitGoal ==
    /\ ~effectPending
    /\ Len(goals) < MaxGoals
    /\ \E goal \in NewGoals :
          /\ \A i \in 1..Len(goals) : goals[i].id # goal.id
          /\ goals' = handleAddGoal(goals, goal)
    /\ effectPending' = TRUE
    /\ UNCHANGED <<taxVars, calcVars, mgrVars, uiVars, projVars, cdiVars,
                   bizVars, rateVars>>

\* The quick update of a goal not yet completed
CallHandleUpdateAmount ==
    /\ ~effectPending
    /\ \E i \in 1..Len(goals), newAmount \in CurrentAmounts :
          /\ ~goals[i].isCompleted
          /\ goals' = handleUpdateGoal(goals,
                          [goals[i] EXCEPT !.currentAmount = newAmount])
    /\ effectPending' = TRUE
    /\ UNCHANGED <<taxVars, calcVars, mgrVars, uiVars, projVars, cdiVars,
                   bizVars, rateVars>>

\* The remove button of a goal, completed or not
RemoveGoal ==
    /\ ~effectPending
    /\ \E i \in 1..Len(goals) : goals' = handleRemoveGoal(goals, goals[i].id)
    /\ effectPending' = TRUE
    /\ UNCHANGED <<taxVars, calcVars, mgrVars, uiVars, projVars, cdiVars,
                   bizVars, rateVars>>

\* The completion effect of one render; a setGoals call renders again
CompletionEffect ==
    /\ effectPending
    /\ \E t \in GoalTimes :
          LET queued == setGoalsCalls(goals, t)
          IN  /\ goals' = afterSetGoals(goals, queued)
              /\ effectPending' = (queued # <<>>)
    /\ UNCHANGED <<taxVars, calcVars, mgrVars, uiVars, projVars, cdiVars,
                   bizVars, rateVars>>

\* Every function of the engine that is given objects, called on the same
\* position, valuation date and obligations; the projection is of that
\* position and those obligations
FramePositions ==
    {inv \in Investments :
        /\ inv.principal > 0 /\ inv.cdiPercentage = 100
        /\ inv.depositDate % HoursPerDay = 12}
FrameObligations ==
    {e \in ExpenseArgs : ~e.isPaid /\ e.currentInstallment = 1}

InitFrame ==
    /\ investment \in {Ret(inv) : inv \in FramePositions}
    /\ currentDate = DateOf(2024, 1, 14, 12)
    /\ cdiAnnualRate = 1490
    /\ calc = NoRet
    /\ expenseArg \in {<<e>> : e \in FrameObligations}
    /\ targetDate = 0 /\ monthly = NoRet /\ pending = NoRet
    /\ bizStart = DateOf(2024, 0, 1, 12)
    /\ bizEnd = DateOf(2024, 0, 10, 12)
    /\ bizDays = NoRet /\ calDays = NoRet
    /\ projArgs = [investments |-> investment, expenses |-> expenseArg,
                   months |-> 1, cdiAnnualRate |-> cdiAnnualRate,
                   monthlySavings |-> 0]
    /\ now = DateOf(2024, 0, 31, 10)
    /\ projCalls = <<>>
    /\ IdleTax /\ IdleUI /\ IdleCdi /\ IdleRate /\ IdleGoals

NextFrame ==
    \/ CallCalculate
    \/ CallGetMonthlyExpenses
    \/ CallGetTotalPendingExpenses
    \/ CallGetBusinessDays
    \/ CallGetCalendarDays
    \/ CallProjectWealth
FrameSpec == InitFrame /\ [][NextFrame]_vars

NextGoals ==
    \/ SubmitGoal
    \/ CallHandleUpdateAmount
    \/ RemoveGoal
    \/ CompletionEffect
GoalsSpec == InitGoals /\ [][NextGoals]_vars /\ WF_vars(CompletionEffect)

----------------------------------------------------------------------------
\* Properties

RECURSIVE SumSeq(_)
SumSeq(amounts) ==
    IF amounts = <<>> THEN 0 ELSE Head(amounts) + SumSeq(Tail(amounts))

Calculated == calc # NoRet
Position == investment[1]
Taxed == ~Position.isExemptFromIR
\* Whole days from the deposit day to the valuation day
DaysApart == DayNumber(currentDate) - DayNumber(Position.depositDate)

\* C1: for a non-exempt position, tax A is taken from the gross return, tax B
\* from the gross return minus tax A (0 when that base is <= 0, base * rate /
\* 100 otherwise), netValue = grossValue - taxA - taxB, and tax B is not the
\* tax on the full gross return when tax A is positive.
C1_TaxBAfterTaxA ==
    (Calculated /\ Taxed) =>
        LET r == calc[1]
            base == r.grossReturn - r.iofAmount
        IN  /\ r.iofAmount = (IF r.grossReturn <= 0 THEN 0
                              ELSE (r.grossReturn \div 100) * r.iofRate)
            /\ r.irAmount = (IF base <= 0 THEN 0
                             ELSE (base \div 1000) * r.irRate)
            /\ r.netValue = r.grossValue - r.iofAmount - r.irAmount
            /\ (r.iofAmount > 0 =>
                   r.irAmount # (r.grossReturn \div 1000) * r.irRate)

C1_Witness ==
    /\ Calculated /\ Taxed
    /\ calc[1].iofAmount > 0 /\ calc[1].irAmount > 0

\* C2: for an exempt position both tax amounts and both tax rates are 0 and
\* netValue = grossValue, whatever the valuation date and the rate.
C2_ExemptPaysNoTax ==
    (Calculated /\ ~Taxed) =>
        /\ calc[1].iofAmount = 0 /\ calc[1].irAmount = 0
        /\ calc[1].iofRate = 0 /\ calc[1].irRate = 0
        /\ calc[1].netValue = calc[1].grossValue

C2_Witness ==
    /\ Calculated /\ ~Taxed
    /\ calc[1].daysInvested = 1 /\ calc[1].grossReturn > 0
    /\ calc[1].netValue = calc[1].grossValue

\* C3: getIRRate is 22.5 for days <= 180, 20.0 for 181..360, 17.5 for
\* 361..720 and 15.0 from 721 on.
C3_IRBrackets ==
    irRate # NoRet =>
        irRate[1] = (IF days <= 180 THEN 225
                     ELSE IF days <= 360 THEN 200
                     ELSE IF days <= 720 THEN 175
                     ELSE 150)

C3_Witness == days = 720 /\ irRate = Ret(175)

\* C4: getIOFRate is 96 for every day count <= 1, 0 for every day count
\* >= 30, and strictly decreasing from day 1 to day 30.
C4_IOFTable ==
    iofRate # NoRet =>
        /\ (days <= 1 => iofRate[1] = 96)
        /\ (days >= 30 => iofRate[1] = 0)
        /\ (days \in 1..29 => getIOFRate(days + 1) < iofRate[1])

C4_Witness == days = 29 /\ iofRate = Ret(3)

\* C5: a valuation date on or before the deposit date gives 0 days, 0
\* business days, grossValue = principal, no return, no tax, netValue =
\* principal and an effective rate of 0.
C5_NoGrowthBeforeDeposit ==
    (Calculated /\ currentDate <= Position.depositDate) =>
        /\ calc[1].daysInvested = 0
        /\ calc[1].businessDays = 0
        /\ calc[1].grossValue = Position.principal
        /\ calc[1].grossReturn = 0
        /\ calc[1].iofAmount = 0 /\ calc[1].irAmount = 0
        /\ calc[1].netValue = Position.principal
        /\ calc[1].effectiveRate = [nan |-> FALSE, value |-> 0]

C5_Witness ==
    /\ Calculated /\ DaysApart < 0
    /\ Position.principal > 0 /\ cdiAnnualRate > 0
    /\ calc[1].netValue = Position.principal

\* C6 as stated: a non-exempt position valued 365 days after its deposit has
\* businessDays = 252, tax A 0 and a tax B rate of 15.0%, so netValue =
\* grossValue - 0.15 * grossReturn.
C6_Original ==
    (Calculated /\ Taxed /\ DaysApart = 365) =>
        /\ calc[1].businessDays = 252
        /\ calc[1].iofAmount = 0
        /\ calc[1].irRate = 150
        /\ calc[1].netValue =
               calc[1].grossValue - (calc[1].grossReturn \div 1000) * 150

\* C6 as amended: the tax B rate at 365 days is 17.5% (bracket 361..720),
\* so netValue = grossValue - 0.175 * grossReturn (a loss bears no tax).
C6_OneYear ==
    (Calculated /\ Taxed /\ DaysApart = 365) =>
        /\ calc[1].businessDays = 252
        /\ calc[1].iofAmount = 0
        /\ calc[1].irRate = 175
        /\ calc[1].netValue =
               calc[1].grossValue
                   - (Max(0, calc[1].grossReturn) \div 1000) * 175

C6_Witness ==
    /\ Calculated /\ Taxed /\ DaysApart = 365
    /\ calc[1].grossReturn > 0 /\ calc[1].irAmount > 0

\* The months since year 0 of a date's calendar month
MonthIndex(t) == getFullYear(t) * MonthsPerYear + getMonth(t)

\* The charge of an obligation whose start month is d months before the
\* target month: the monthly amount for 0 <= d < installments
WindowCharge(expense, date) ==
    LET d == MonthIndex(date) - MonthIndex(expense.startDate)
    IN  IF 0 <= d /\ d < expense.installments THEN expense.monthlyAmount ELSE 0

DeferredPast(expense, date) ==
    expense.paymentDate # <<>> /\ date < expense.paymentDate[1]

\* C7: an unpaid obligation with no deferred date is charged its monthly
\* amount exactly when 0 <= d < installments; 1200 in 12 installments from
\* January 2024 is 100 in the months 0..11 and 0 before and after.
C7_ChargedInsideWindow ==
    (/\ monthly # NoRet
     /\ \A i \in 1..Len(expenseArg) :
            ~expenseArg[i].isPaid /\ expenseArg[i].paymentDate = <<>>) =>
        /\ monthly[1] = SumSeq([i \in 1..Len(expenseArg) |->
                                   WindowCharge(expenseArg[i], targetDate)])
        /\ (Len(expenseArg) = 1 /\ expenseArg[1].installments = 12) =>
               monthly[1] =
                   (IF MonthIndex(targetDate) - MonthIndex(StartDate) \in 0..11
                    THEN 100 * Atoms ELSE 0)

C7_Witness ==
    /\ Len(expenseArg) = 1 /\ expenseArg[1].installments = 12
    /\ ~expenseArg[1].isPaid /\ expenseArg[1].paymentDate = <<>>
    /\ targetDate = DateOf(2024, 11, 28, 0)
    /\ monthly = Ret(100 * Atoms)

\* C8: a paid obligation contributes 0 at every target date, and so does an
\* unpaid one deferred to a date after the target date, inside the
\* installment window or not.
C8_PaidOrDeferredNotCharged ==
    monthly # NoRet =>
        monthly[1] = SumSeq([i \in 1..Len(expenseArg) |->
            IF expenseArg[i].isPaid \/ DeferredPast(expenseArg[i], targetDate)
            THEN 0
            ELSE WindowCharge(expenseArg[i], targetDate)])

C8_Witness ==
    /\ monthly = Ret(0)
    /\ \E i, j \in 1..Len(expenseArg) :
          /\ expenseArg[i].isPaid
          /\ WindowCharge(expenseArg[i], targetDate) > 0
          /\ ~expenseArg[j].isPaid
          /\ DeferredPast(expenseArg[j], targetDate)
          /\ WindowCharge(expenseArg[j], targetDate) > 0

PendingOf(expense) ==
    IF expense.isPaid THEN 0
    ELSE IF expense.currentInstallment > expense.installments THEN 0
    ELSE expense.monthlyAmount
             * (expense.installments - expense.currentInstallment + 1)

\* C9: the pending total is the sum, over the unpaid obligations, of the
\* monthly amount times the installments left, never less than 0; the
\* expense card shows the same total.
C9_PendingTotal ==
    pending # NoRet =>
        /\ pending[1] = SumSeq([i \in 1..Len(expenseArg) |->
                                   PendingOf(expenseArg[i])])
        /\ pending[1] >= 0
        /\ totalPending(expenseArg) = pending[1]

C9_Witness ==
    /\ pending # NoRet
    /\ \E i, j \in 1..Len(expenseArg) :
          /\ ~expenseArg[i].isPaid
          /\ expenseArg[i].currentInstallment > expenseArg[i].installments + 1
          /\ ~expenseArg[j].isPaid
          /\ expenseArg[j].currentInstallment = 1
          /\ pending[1] = PendingOf(expenseArg[j])
          /\ pending[1] > 0

Abs(x) == IF x >= 0 THEN x ELSE 0 - x

\* Every obligation of the list carries the quotient of its total by its
\* installments, which times the installments is the total within rounding
Amortized ==
    \A i \in 1..Len(expenses) :
        /\ expenses[i].monthlyAmount =
               Divide(expenses[i].totalAmount, expenses[i].installments)
        /\ Abs(expenses[i].monthlyAmount * expenses[i].installments
                   - expenses[i].totalAmount) <= expenses[i].installments

\* A toggle step flips isPaid of one obligation and changes nothing else
ToggleChangesOnlyIsPaid ==
    lastOp'.op = "togglePaid" =>
        /\ Len(expenses') = Len(expenses)
        /\ \A i \in 1..Len(expenses) :
              expenses'[i] =
                  IF expenses[i].id = lastOp'.id
                  THEN [expenses[i] EXCEPT !.isPaid = ~expenses[i].isPaid]
                  ELSE expenses[i]

\* C10: after any sequence of submit, toggle, remove and reload, every
\* obligation has monthlyAmount = totalAmount / installments; a toggle
\* changes isPaid only.
C10_AmortizationKept == []Amortized /\ [][ToggleChangesOnlyIsPaid]_vars

C10_Witness ==
    /\ lastOp.op = "togglePaid"
    /\ \E i \in 1..Len(expenses) :
          /\ expenses[i].id = lastOp.id
          /\ expenses[i].isPaid
          /\ expenses[i].installments = 3
          /\ expenses[i].monthlyAmount * 3 # expenses[i].totalAmount

\* C11: every obligation of the list, submitted through the form or loaded
\* from localStorage on mount, has installments >= 1, and so has every
\* obligation saved.
C11_InstallmentsPositive ==
    /\ \A i \in 1..Len(expenses) : expenses[i].installments >= 1
    /\ \A i \in 1..Len(storage) : storage[i].installments >= 1

C11_Witness ==
    /\ lastOp.op = "mount"
    /\ \E i \in 1..Len(expenses) :
          expenses[i].installments = 3 /\ expenses[i].monthlyAmount > 0

----------------------------------------------------------------------------
\* Properties of projectWealth

Points(k) == projCalls[k].points
MonthlyRate == annualToMonthly(projArgs.cdiAnnualRate)

\* C12: projectWealth returns months + 1 points in the order of the month
\* index, each dated later than the one before it, the point of index 0
\* dated at the moment of the call and the point of index i at that date
\* moved i months on.
C12_PointsInMonthOrder ==
    \A k \in 1..Len(projCalls) :
        /\ Len(Points(k)) = projArgs.months + 1
        /\ Points(k)[1].date = projCalls[k].startDate
        /\ \A i \in 1..Len(Points(k)) :
              Points(k)[i].date = addMonths(projCalls[k].startDate, i - 1)
        /\ \A i \in 2..Len(Points(k)) :
              Points(k)[i].date > Points(k)[i - 1].date

C12_Witness ==
    /\ Len(projCalls) = 2
    /\ projArgs.months = 3
    /\ Len(Points(2)) = 4
    /\ getDate(projCalls[2].startDate) = 31
    /\ Points(2)[1].date = now

\* The value of the positions at a date, net of tax
PositionsValue(date) ==
    SumSeq([n \in 1..Len(projArgs.investments) |->
               calculate(projArgs.investments[n], date,
                         projArgs.cdiAnnualRate).netValue])

\* The contributions of the months 1..i, each grown at the monthly rate for
\* the months since it was made
ContributionValue(i) ==
    SumSeq([j \in 1..i |->
               MulFix(projArgs.monthlySavings,
                      PowFix(RateScale + MonthlyRate, i - j))])

\* The expenses charged at the indexes 0..i of the k-th projection
CumulativeExpenses(k, i) ==
    SumSeq([n \in 1..(i + 1) |-> Points(k)[n].totalExpenses])

\* C13: at every index i the net worth is the value of the positions plus
\* the value of the contributions minus the expenses charged at the indexes
\* 0..i; the expenses of an index are those getMonthlyExpenses charges at its
\* date and are never negative, so the cumulative expenses never decrease.
C13_NetWorthAccounting ==
    \A k \in 1..Len(projCalls) : \A i \in 0..(Len(Points(k)) - 1) :
        LET p == Points(k)[i + 1]
        IN  /\ p.totalExpenses = getMonthlyExpenses(projArgs.expenses, p.date)
            /\ p.totalExpenses >= 0
            /\ i > 0 => CumulativeExpenses(k, i) >= CumulativeExpenses(k, i - 1)
            /\ p.netWorth = PositionsValue(p.date) + ContributionValue(i)
                                - CumulativeExpenses(k, i)

C13_Witness ==
    /\ Len(projCalls) >= 1
    /\ Len(Points(1)) >= 3
    /\ projArgs.investments # <<>>
    /\ projArgs.monthlySavings > 0
    /\ Points(1)[3].totalExpenses > 0
    /\ CumulativeExpenses(1, 2) > Points(1)[3].totalExpenses
    /\ Points(1)[3].netWorth = PositionsValue(Points(1)[3].date)
                                  + ContributionValue(2)
                                  - CumulativeExpenses(1, 2)

\* The contribution value a point carries: what its net worth holds besides
\* the positions, before the expenses
ContributionOf(k, i) ==
    Points(k)[i + 1].netWorth + CumulativeExpenses(k, i)
        - PositionsValue(Points(k)[i + 1].date)

\* The rounding of i months of fixed-point growth of the contributions
GrowthRounding(i) == i * (projArgs.monthlySavings \div RateScale + 1)

\* C14: the contribution value is 0 at index 0, at index i it is the sum
\* over j = 1..i of monthlySavings * (1 + monthlyRate)^(i - j), and, up to
\* the rounding of the growth factors, it is the value of index i - 1 grown
\* by one month plus one contribution that has earned nothing yet.
C14_ContributionValue ==
    \A k \in 1..Len(projCalls) : \A i \in 0..(Len(Points(k)) - 1) :
        /\ i = 0 => ContributionOf(k, i) = 0
        /\ ContributionOf(k, i) = ContributionValue(i)
        /\ i >= 1 =>
              Abs(ContributionOf(k, i)
                    - (MulFix(ContributionOf(k, i - 1), RateScale + MonthlyRate)
                         + projArgs.monthlySavings)) <= GrowthRounding(i)

C14_Witness ==
    /\ Len(projCalls) >= 1
    /\ Len(Points(1)) = 4
    /\ projArgs.monthlySavings > 0
    /\ projArgs.investments # <<>> /\ projArgs.expenses # <<>>
    /\ ContributionOf(1, 1) = projArgs.monthlySavings
    /\ ContributionOf(1, 3) > 3 * projArgs.monthlySavings
    /\ ContributionOf(1, 3) = ContributionValue(3)

\* C15 as stated: for i > 0 the return of the month is
\* max(0, netWorth_i - netWorth_{i-1} + monthlySavings * monthlyRate), on the
\* net worth of the points i and i - 1.
C15_ReturnOnNetWorth ==
    \A k \in 1..Len(projCalls) : \A i \in 1..(Len(Points(k)) - 1) :
        Points(k)[i + 1].monthlyReturn =
            Max(0, Points(k)[i + 1].netWorth - Points(k)[i].netWorth
                     + MulFix(projArgs.monthlySavings, MonthlyRate))

\* C16: no point has a negative monthlyReturn, and the point of index 0 has
\* monthlyReturn 0.
C16_ReturnNotNegative ==
    \A k \in 1..Len(projCalls) :
        /\ \A i \in 1..Len(Points(k)) : Points(k)[i].monthlyReturn >= 0
        /\ Points(k)[1].monthlyReturn = 0

\* A projection of contributions alone whose net worth, positive at index 1,
\* falls below zero at index 2, and whose return of the month at index 2 is 0
C16_Witness ==
    /\ Len(projCalls) >= 1
    /\ Len(Points(1)) >= 3
    /\ projArgs.investments = <<>> /\ projArgs.monthlySavings > 0
    /\ Points(1)[2].netWorth > 0
    /\ Points(1)[3].netWorth < 0
    /\ Points(1)[3].monthlyReturn = 0
    /\ Points(1)[1].monthlyReturn = 0

\* C17 as stated: two calls with the same arguments return the same points,
\* whenever each of them is made.
C17_SameArgumentsSamePoints ==
    Len(projCalls) = 2 => Points(1) = Points(2)

----------------------------------------------------------------------------
\* Properties of fetchCurrentCDI

Failures == {"network", "notOk", "unparsable", "empty"}
Succeeded(c) ==
    calls[c].pc = "resolved" /\ calls[c].failure = "none" /\ ~calls[c].fromCache

\* C18: no call of fetchCurrentCDI is rejected, and a call whose fetch failed
\* (a network error, a response that is not ok, a body that cannot be parsed,
\* an empty data array) is resolved with the fallback rate 14.90.
C18_NeverRejects ==
    \A c \in Callers :
        /\ calls[c].pc # "rejected"
        /\ calls[c].failure \in Failures =>
              calls[c].pc = "resolved" /\ calls[c].value = 1490

C18_Witness ==
    \E a, b, c \in Callers :
        /\ calls[a].failure = "network" /\ calls[a].value = 1490
        /\ calls[b].failure = "unparsable" /\ calls[b].value = 1490
        /\ calls[c].failure = "empty" /\ calls[c].pc = "resolved"

\* One hour, in milliseconds
OneHour == 60 * 60 * 1000

\* The last successful fetch to complete: the caller, and whether less than
\* one hour has passed since
LastSuccessRecent ==
    lastDone # NoRet /\ clock - calls[lastDone[1]].storedAt < OneHour

\* C19: a call that starts less than one hour after the last successful
\* fetch completed is resolved at once with the rate that fetch returned and
\* issues no request; a call that starts one hour or more after it (or
\* before any fetch succeeded) issues a request; and a cache that is set is
\* never unset.
C19_CacheWindow ==
    /\ [][\A c \in Callers :
              calls[c].pc = "idle" /\ calls'[c].pc # "idle" =>
                  IF LastSuccessRecent
                  THEN /\ calls'[c].pc = "resolved"
                       /\ calls'[c].value = calls[lastDone[1]].value
                       /\ requests' = requests
                  ELSE /\ calls'[c].pc = "fetch"
                       /\ requests' = requests + 1]_vars
    /\ [][cachedCDI # NoRet => cachedCDI' # NoRet /\ lastFetch' # NoRet]_vars

C19_Witness ==
    \E a, b, c \in Callers :
        /\ Succeeded(a) /\ calls[a].storedAt = 0
        /\ calls[b].fromCache /\ calls[b].startedAt = OneHour - 1
        /\ calls[b].value = calls[a].value
        /\ calls[c].pc = "fetch" /\ calls[c].startedAt = OneHour
        /\ requests = 2

\* C20: in every state of every interleaving cachedCDI and lastFetch are
\* both unset or both set; the cache holds the rate and the time of the
\* successful fetch that completed last, in particular once every call has
\* completed, and is unset if none succeeded.
C20_CacheConsistent ==
    /\ (cachedCDI = NoRet) <=> (lastFetch = NoRet)
    /\ IF lastDone = NoRet THEN cachedCDI = NoRet
       ELSE /\ cachedCDI = Ret(calls[lastDone[1]].value)
            /\ lastFetch = Ret(calls[lastDone[1]].storedAt)

\* The three calls fetched concurrently and all have completed; two of them
\* succeeded with different rates and the cache holds the later one
C20_Witness ==
    /\ \A c \in Callers : calls[c].pc = "resolved" /\ calls[c].startedAt = 0
    /\ requests = 3
    /\ \E a, b \in Callers :
          /\ Succeeded(a) /\ Succeeded(b)
          /\ calls[a].value # calls[b].value
          /\ lastDone = Ret(b)
          /\ cachedCDI = Ret(calls[b].value)

----------------------------------------------------------------------------
\* Properties of the projection's calendar

\* C23 as stated: the point of index i is dated in the calendar month i
\* months after the month of the call, whatever the day of the month of the
\* call.
C23_OnePointPerMonth ==
    \A k \in 1..Len(projCalls) : \A i \in 0..(Len(Points(k)) - 1) :
        MonthIndex(Points(k)[i + 1].date)
            = MonthIndex(projCalls[k].startDate) + i

\* What the unpaid obligations of the list can be charged in all: each its
\* monthly amount once per installment
FullCharge ==
    SumSeq([n \in 1..Len(projArgs.expenses) |->
               IF projArgs.expenses[n].isPaid THEN 0
               ELSE projArgs.expenses[n].monthlyAmount
                        * projArgs.expenses[n].installments])

\* C27 as stated: over a projection an unpaid obligation is never charged
\* more than monthlyAmount * installments.
C27_ChargedAtMostInFull ==
    \A k \in 1..Len(projCalls) : \A i \in 0..(Len(Points(k)) - 1) :
        CumulativeExpenses(k, i) <= FullCharge

----------------------------------------------------------------------------
\* Properties of the month arithmetic of getMonthlyExpenses

\* Every obligation of the list is unpaid and has no deferred payment date
AllPlain ==
    \A n \in 1..Len(expenseArg) :
        ~expenseArg[n].isPaid /\ expenseArg[n].paymentDate = <<>>

\* C26: for unpaid obligations with no deferred date the charge of a month
\* is the same at every target date of that calendar month, it is decided by
\* the difference of the calendar months of the start and of the target
\* alone, and a start on 31 January with a target on 1 February is a
\* difference of one month: the second installment, if there is one.
C26_DayOfMonthIgnored ==
    monthly # NoRet /\ AllPlain =>
        /\ \A t \in TargetDates :
              MonthIndex(t) = MonthIndex(targetDate) =>
                  getMonthlyExpenses(expenseArg, t) = monthly[1]
        /\ monthly[1] =
              SumSeq([n \in 1..Len(expenseArg) |->
                         WindowCharge(expenseArg[n], targetDate)])
        /\ targetDate = DateOf(2024, 1, 1, 0) =>
              monthly[1] =
                  SumSeq([n \in 1..Len(expenseArg) |->
                             IF expenseArg[n].installments > 1
                             THEN expenseArg[n].monthlyAmount ELSE 0])

C26_Witness ==
    /\ monthly # NoRet /\ AllPlain
    /\ targetDate = DateOf(2024, 1, 1, 0)
    /\ Len(expenseArg) = 2
    /\ expenseArg[1].installments = 1 /\ expenseArg[2].installments = 12
    /\ getDate(expenseArg[1].startDate) = 31
    /\ monthly[1] = expenseArg[2].monthlyAmount
    /\ getMonthlyExpenses(expenseArg, DateOf(2024, 1, 28, 0)) = monthly[1]

----------------------------------------------------------------------------
\* Properties of a failed fetch

Failed(c) == calls[c].failure \in Failures

\* C28: the step in which a call fails leaves cachedCDI and lastFetch as they
\* were and resolves the call with 14.90, also when an expired rate is
\* cached; the cache holds nothing but a rate some successful fetch returned;
\* and a call that starts while the cache is unset or expired issues a
\* request, whatever failed before.
C28_FailureKeepsCache ==
    /\ [][\A c \in Callers :
              ~Failed(c) /\ Failed(c)' =>
                  /\ cachedCDI' = cachedCDI /\ lastFetch' = lastFetch
                  /\ calls'[c].pc = "resolved" /\ calls'[c].value = 1490]_vars
    /\ [](cachedCDI # NoRet =>
             \E c \in Callers : Succeeded(c) /\ cachedCDI = Ret(calls[c].value))
    /\ [][\A c \in Callers :
              /\ calls[c].pc = "idle" /\ calls'[c].pc # "idle"
              /\ (lastFetch = NoRet \/ clock - lastFetch[1] >= OneHour)
              => calls'[c].pc = "fetch" /\ requests' = requests + 1]_vars

\* A rate was fetched at time 0; one hour later a call found it expired, its
\* fetch failed and it returned 14.90; the expired rate is still cached and
\* the next call has issued the third request
C28_Witness ==
    \E a, b, c \in Callers :
        /\ Succeeded(a) /\ calls[a].storedAt = 0
        /\ Failed(b) /\ calls[b].startedAt = OneHour /\ calls[b].value = 1490
        /\ cachedCDI = Ret(calls[a].value) /\ lastFetch = Ret(0)
        /\ calls[a].value # 1490
        /\ calls[c].pc = "fetch" /\ calls[c].startedAt = OneHour
        /\ requests = 3

----------------------------------------------------------------------------
\* Properties of the tax amounts

\* C29: for every position, exempt or not, a gross return that is not
\* negative bears two tax amounts that are not negative and together do not
\* exceed it, so that netValue >= principal and netReturn >= 0; a gross
\* return that is not positive bears no tax.
C29_TaxWithinReturn ==
    Calculated =>
        /\ calc[1].grossReturn >= 0 =>
              /\ calc[1].iofAmount >= 0 /\ calc[1].irAmount >= 0
              /\ calc[1].iofAmount + calc[1].irAmount <= calc[1].grossReturn
              /\ calc[1].netValue >= Position.principal
              /\ calc[1].netReturn >= 0
        /\ calc[1].grossReturn <= 0 =>
              calc[1].iofAmount = 0 /\ calc[1].irAmount = 0

\* A taxed position valued at a loss inside the 30 days of tax A
C29_Witness ==
    /\ Calculated /\ Taxed
    /\ cdiAnnualRate < 0
    /\ calc[1].grossReturn < 0
    /\ calc[1].daysInvested \in 1..30
    /\ calc[1].iofRate > 0 /\ calc[1].iofAmount = 0 /\ calc[1].irAmount = 0
    /\ calc[1].netValue < Position.principal

----------------------------------------------------------------------------
\* Properties of getBusinessDays

\* The days after the day of start up to the day of end
DaysBetween == (DayNumber(bizStart) + 1)..DayNumber(bizEnd)

Weekend(d) == (d + 4) % 7 \in {0, 6}

Holiday(d) ==
    LET c == CivilFromDays(d)
    IN  <<c.m + 1, c.d>> \in {<<1, 1>>, <<4, 21>>, <<5, 1>>, <<9, 7>>,
                              <<10, 12>>, <<11, 2>>, <<11, 15>>, <<12, 25>>}

\* C25: getBusinessDays returns the number of days after the day of start, up
\* to and including the day of end, that are neither a Saturday, a Sunday nor
\* one of the eight fixed holidays; it is 0 when end is on or before the day
\* of start and never more than the calendar days between the two.
C25_BusinessDaysCounted ==
    bizDays # NoRet =>
        /\ bizDays[1] =
               Cardinality({d \in DaysBetween : ~Weekend(d) /\ ~Holiday(d)})
        /\ DayNumber(bizEnd) <= DayNumber(bizStart) => bizDays[1] = 0
        /\ bizDays[1] <= Max(0, DayNumber(bizEnd) - DayNumber(bizStart))
        /\ calDays # NoRet => bizDays[1] <= calDays[1]

\* From noon of 20 December 2024 to 3 January 2025: eight working days out
\* of fourteen, with two weekends, Christmas and New Year's Day left out
C25_Witness ==
    /\ bizDays # NoRet /\ calDays # NoRet
    /\ bizStart = DateOf(2024, 11, 20, 12)
    /\ bizEnd = DateOf(2025, 0, 3, 0)
    /\ calDays[1] = 14
    /\ bizDays[1] = 8

----------------------------------------------------------------------------
\* Properties of the business-day estimate

\* c * 252 / 365 rounded to the nearest whole number, halves upwards
RoundedRatio(c) ==
    CHOOSE k \in 0..c :
        2 * k * 365 - 365 <= 2 * c * 252 /\ 2 * c * 252 < 2 * k * 365 + 365

\* C24: the businessDays calculate reports is calendarDays * 252 / 365
\* rounded to the nearest whole number, and the gross value is compounded
\* over that many days; the estimate is 0 for 0 days, never more than the
\* calendar days, and does not decrease as the days grow.
C24_BusinessDaysEstimated ==
    Calculated =>
        /\ calc[1].daysInvested = Max(0, DaysApart)
        /\ calc[1].businessDays = RoundedRatio(calc[1].daysInvested)
        /\ calc[1].grossValue =
               MulMoney(Position.principal,
                        PowFix(RateScale
                                 + (annualToDaily(cdiAnnualRate)
                                      * Position.cdiPercentage) \div 100,
                               RoundedRatio(calc[1].daysInvested)))
        /\ calc[1].daysInvested = 0 => calc[1].businessDays = 0
        /\ calc[1].businessDays <= calc[1].daysInvested
        /\ \A c \in 0..(calc[1].daysInvested - 1) :
              /\ estimateBusinessDays(c) <= estimateBusinessDays(c + 1)
              /\ estimateBusinessDays(c) <= calc[1].businessDays

\* 30 calendar days from 15 January 2024: 21 by the estimate, where the
\* day-by-day count gives 22
C24_Witness ==
    /\ Calculated
    /\ calc[1].daysInvested = 30
    /\ calc[1].businessDays = 21
    /\ getBusinessDays(Position.depositDate, currentDate) = 22

----------------------------------------------------------------------------
\* Properties of the rate conversions

\* C22: dailyToAnnual(annualToDaily(r)) is r within a relative tolerance of
\* 1e-9.
C22_RoundTrip ==
    roundTrip # NoRet =>
        Abs(roundTrip[1] - rateArg) <= Abs(rateArg) \div 1000000000

----------------------------------------------------------------------------
\* Properties of the goals

GoalOf(list, id) == CHOOSE g \in {list[i] : i \in 1..Len(list)} : g.id = id
Listed(list, id) == \E i \in 1..Len(list) : list[i].id = id
Reached(id) == Listed(goals, id) /\ reached(GoalOf(goals, id))
Completed(id) == Listed(goals, id) /\ GoalOf(goals, id).isCompleted

\* What a run of the effect may do to one goal: nothing, or, when it has
\* reached its target, set isCompleted and completedAt
EffectOn(before, after) ==
    \/ after = before
    \/ /\ reached(before)
       /\ after.isCompleted /\ after.completedAt # <<>>
       /\ after = [before EXCEPT !.isCompleted = TRUE,
                                 !.completedAt = after.completedAt]

\* C30: a goal that has reached its target and is not completed is
\* eventually completed, also when several are rendered at once; a run of
\* the effect changes nothing but isCompleted and completedAt of goals that
\* have reached their target; a completed goal stays completed as long as it
\* is in the list.
C30_GoalsCompleted ==
    /\ \A id \in GoalIds : Reached(id) ~> Completed(id)
    /\ [][effectPending =>
            /\ Len(goals') = Len(goals)
            /\ \A i \in 1..Len(goals) : EffectOn(goals[i], goals'[i])]_vars
    /\ [][\A id \in GoalIds :
            Completed(id) /\ Listed(goals', id) =>
                GoalOf(goals', id).isCompleted]_vars

\* Two goals had reached their target in one render; the effect has
\* completed the second one, the first is still to be completed by the
\* effect of the next render
C30_Witness ==
    /\ Len(goals) = 2 /\ effectPending
    /\ reached(goals[1])
    /\ goals[2].isCompleted /\ goals[2].completedAt # <<>>
    /\ goals[2].completedAt[1] \in GoalTimes

----------------------------------------------------------------------------
\* Properties of the arguments

\* C21: calculate, getMonthlyExpenses, getTotalPendingExpenses,
\* getBusinessDays, getCalendarDays and projectWealth leave the position,
\* the dates, the obligations and the lists they are given as they were; the
\* target date of getMonthlyExpenses, which the call supplies, is still the
\* one that gives the result.
C21_InputsUnchanged ==
    [][/\ investment' = investment
       /\ currentDate' = currentDate
       /\ expenseArg' = expenseArg
       /\ bizStart' = bizStart /\ bizEnd' = bizEnd
       /\ projArgs' = projArgs
       /\ monthly' # monthly =>
              monthly' = Ret(getMonthlyExpenses(expenseArg, targetDate'))]_vars

\* Every function has been called, on dates that are not at midnight
C21_Witness ==
    /\ calc # NoRet /\ monthly # NoRet
    /\ bizDays # NoRet /\ calDays # NoRet
    /\ projCalls # <<>>
    /\ investment[1].depositDate % HoursPerDay = 12
    /\ currentDate % HoursPerDay = 12
    /\ bizStart % HoursPerDay = 12 /\ bizEnd % HoursPerDay = 12
    /\ projArgs.investments = investment

====
